---- MODULE Spec2Model ----
(***************************************************************************)
(* Model of pl_training.py: the PhantasmLight multi-task training module   *)
(* (control-token vocabulary extension, calc_loss, configure_optimizers,   *)
(* load_data, on_save_checkpoint) and the trainer configured by the driver *)
(* at the bottom of the file.                                              *)
(*                                                                         *)
(* Tensors of losses are sequences of exact rationals <<n, d>> in lowest   *)
(* terms, so that means are computed exactly and equality is structural.   *)
(***************************************************************************)
EXTENDS Integers, Sequences, FiniteSets, TLC

VARIABLES
    task_dict,        \* self.task_dict: task name -> TaskFamily
    use_ctrl_tokens,  \* self.use_ctrl_tokens
    heads,            \* self.heads: names of the tasks that own a head
    tokenizer,        \* self.tokenizer: the vocabulary, token id i-1 at index i
    weight,           \* self.encoder.embeddings.word_embeddings.weight, one value per row
    ext,              \* what the last run of the vocabulary extension saw and did
    multi_train,      \* self.multi_train: task name -> dataset built by load_data
    train_batch,      \* the batch of the last step: dict items in iteration order
    step,             \* outcome of the last calc_loss call
    named_parameters, \* self.named_parameters(): parameter names in order
    optimizer_grouped_parameters, \* the two groups built by configure_optimizers
    trainer           \* the pl.Trainer driving the module, and its lr scheduler

vars == <<task_dict, use_ctrl_tokens, heads, tokenizer, weight, ext, multi_train,
          train_batch, step, named_parameters, optimizer_grouped_parameters, trainer>>

None == "None"

(***************************************************************************)
(* Bounds of the model.                                                    *)
(***************************************************************************)
MaxExamples == 2     \* examples of one task in one multi-task batch
MaxPad == 1          \* embedding rows of the pretrained encoder beyond len(tokenizer)
MaxUpdates == 1      \* optimizer updates of the embedding matrix in one run
MaxRuns == 2         \* runs of the vocabulary extension on one tokenizer and encoder
MaxParams == 3       \* named parameters of the module
MaxBatches == 9      \* training batches in one epoch

(***************************************************************************)
(* Exact rationals and the tensor reductions used by calc_loss.            *)
(***************************************************************************)
RECURSIVE GCD(_, _)
GCD(a, b) == IF b = 0 THEN a ELSE GCD(b, a % b)

Rat(n, d) == LET g == GCD(n, d) IN <<n \div g, d \div g>>

RAdd(a, b) == Rat(a[1] * b[2] + b[1] * a[2], a[2] * b[2])

RLeq(a, b) == a[1] * b[2] <= b[1] * a[2]

RECURSIVE TensorSum(_)
TensorSum(t) == IF t = <<>> THEN <<0, 1>> ELSE RAdd(t[1], TensorSum(Tail(t)))

\* torch.mean of a 1-D tensor
TorchMean(t) == LET s == TensorSum(t) IN Rat(s[1], s[2] * Len(t))

\* torch.cat of a list of 1-D tensors
RECURSIVE TorchCat(_)
TorchCat(ts) == IF ts = <<>> THEN <<>> ELSE ts[1] \o TorchCat(Tail(ts))

\* torch.mean(m, dim=1) of a 2-D tensor: one mean per row
MeanDim1(m) == [i \in 1..Len(m) |-> TorchMean(m[i])]

(***************************************************************************)
(* The task registry consumed by the module (tasks.TaskFamily).            *)
(***************************************************************************)
Names == {"task_a", "task_b"}

CtrlTokens == {"[CLF]", "[QRY]"}

\* the task types load_data and calc_loss tell apart; a multi-label
\* classification task is a task of type classification with multi_label set
TaskTypes == {"classification", "ir", "triplet"}

\* The TaskFamily descriptors whose control token is None or one of ctrls.
\* head is TRUE when the task owns a head module (t.head is truthy).
TaskFamilies(ctrls) ==
    { [type |-> ty, multi_label |-> ml, head |-> hd, ctrl_token |-> ct] :
        ty \in TaskTypes, ml \in BOOLEAN, hd \in BOOLEAN, ct \in {None} \cup ctrls }

\* Registries used to exercise calc_loss and load_data: every type, with and
\* without head, with and without a control token.
LossRegistries ==
    { td \in [Names -> TaskFamilies({"[CLF]"})] :
        \A n \in Names :
            td[n].type \in {"ir", "triplet"} => ~td[n].multi_label /\ ~td[n].head }

\* Registries used to exercise the vocabulary extension: the scenario of a
\* classification task and a retrieval task, with every choice of control tokens.
VocabRegistries ==
    { td \in [Names -> TaskFamilies(CtrlTokens)] :
        /\ td["task_a"].type = "classification" /\ td["task_a"].head
        /\ ~td["task_a"].multi_label
        /\ td["task_b"].type = "ir" /\ ~td["task_b"].head /\ ~td["task_b"].multi_label }

\* self.heads = ModuleDict({t.name: t.head for t in task_dict.values() if t.head})
Heads(td) == { n \in DOMAIN td : td[n].head }

(***************************************************************************)
(* load_data: one dataset per registered task.                             *)
(***************************************************************************)
\* op_token = task.ctrl_token if self.use_ctrl_tokens else None
OpToken(task, use_ctrl) == IF use_ctrl THEN task.ctrl_token ELSE None

DatasetClass(task) ==
    IF task.type = "classification"
    THEN IF task.multi_label THEN "MultiLabelClassificationDataset"
                             ELSE "ClassificationDataset"
    ELSE IF task.type = "ir" THEN "IRDataset" ELSE "TripletDataset"

LoadData(td, use_ctrl) ==
    [n \in DOMAIN td |->
        [dataset |-> DatasetClass(td[n]), ctrl_token |-> OpToken(td[n], use_ctrl)]]

\* A dataset inserts its control token into every input sequence it builds,
\* and inserts nothing when it was given ctrl_token = None.
InsertsCtrlToken(ds) == ds.ctrl_token # None

(***************************************************************************)
(* Multi-task batches.  The encoder and the tasks' loss functions are      *)
(* opaque: an item of the batch carries, with the task's name, the tensor  *)
(* that task.loss returns for the item's payload.                          *)
(***************************************************************************)
LossVals == { <<0, 1>>, <<1, 1>> }

Tensor1D == UNION { [1..n -> LossVals] : n \in 1..MaxExamples }

\* per-label losses of one example of a multi-label task
LabelRows == { << <<0, 1>>, <<1, 1>> >>, << <<1, 1>>, <<1, 1>> >> }

Tensor2D == UNION { [1..n -> LabelRows] : n \in 1..MaxExamples }

\* task.loss: one loss per example, or one per example and label for a
\* classification task with multi_label = true
LossOutputs(task) ==
    IF task.type = "classification" /\ task.multi_label THEN Tensor2D ELSE Tensor1D

BatchOrders == { o \in UNION { [1..k -> Names] : k \in 1..Cardinality(Names) } :
                    \A i, j \in 1..Len(o) : i # j => o[i] # o[j] }

\* what a batch can hold for one task
Items(td, name) == { [name |-> name, out |-> t] : t \in LossOutputs(td[name]) }

RECURSIVE ItemSeqs(_, _)
ItemSeqs(td, o) ==
    IF o = <<>> THEN { <<>> }
    ELSE { <<it>> \o rest : it \in Items(td, o[1]), rest \in ItemSeqs(td, Tail(o)) }

\* the batches of a registry: a payload for each task of a non-empty set of
\* registered tasks, in any iteration order
Batches(td) == UNION { ItemSeqs(td, o) : o \in BatchOrders }

BatchNames(items) == { items[i].name : i \in 1..Len(items) }

(***************************************************************************)
(* calc_loss                                                               *)
(***************************************************************************)
\* idx = 0 if not task.ctrl_token else 1
TokenIdx(task) == IF task.ctrl_token = None THEN 0 ELSE 1

\* fault variant of IsClassification: retrieval tasks grouped with the classification tasks
IsClassificationOrIr(task) == task.type \in {"classification", "ir"}

\* the else branch of `if task.type != "classification"`
IsClassification(task) == task.type = "classification"

\* if task.multi_label: curr_loss = torch.mean(curr_loss, dim=1)
ReduceLabels(task, raw) == IF task.multi_label THEN MeanDim1(raw) ELSE raw

\* fault variant of PerTaskLoss: the per-task value as the sum of the per-example losses
PerTaskLossSum(curr_loss) == TensorSum(curr_loss)

\* loss_per_task[name] = torch.mean(curr_loss)
PerTaskLoss(curr_loss) == TorchMean(curr_loss)

\* fault variant of AggregateLoss: the aggregate as the mean of the per-task means
AggregateLossMeanOfMeans(losses) ==
    TorchMean([i \in 1..Len(losses) |-> TorchMean(losses[i])])

\* loss = torch.mean(torch.cat(losses))
AggregateLoss(losses) == TorchMean(TorchCat(losses))

\* self.heads[name] raises KeyError for a name that is not in the ModuleDict
HasHead(hd, name) == name \in hd

RECURSIVE CalcLossLoop(_, _, _, _, _, _)
CalcLossLoop(td, hd, items, losses, lpt, tr) ==
    IF items = <<>>
    THEN [status |-> "returned", loss |-> AggregateLoss(losses),
          loss_per_task |-> lpt, trace |-> tr]
    ELSE
        LET name == items[1].name
            task == td[name]
            idx == TokenIdx(task)
        IN  IF ~IsClassification(task)
            THEN LET curr_loss == items[1].out
                 IN CalcLossLoop(td, hd, Tail(items), Append(losses, curr_loss),
                        (name :> PerTaskLoss(curr_loss)) @@ lpt,
                        Append(tr, [name |-> name, idx |-> idx, path |-> "triplet",
                                    encodes |-> 3, head_applied |-> FALSE,
                                    loss_args |-> "query_pos_neg"]))
            ELSE IF ~HasHead(hd, name)
            THEN [status |-> "KeyError", loss |-> None, loss_per_task |-> lpt,
                  trace |-> Append(tr, [name |-> name, idx |-> idx,
                                        path |-> "classification", encodes |-> 1,
                                        head_applied |-> FALSE, loss_args |-> None])]
            ELSE LET curr_loss == ReduceLabels(task, items[1].out)
                 IN CalcLossLoop(td, hd, Tail(items), Append(losses, curr_loss),
                        (name :> PerTaskLoss(curr_loss)) @@ lpt,
                        Append(tr, [name |-> name, idx |-> idx,
                                    path |-> "classification", encodes |-> 1,
                                    head_applied |-> TRUE,
                                    loss_args |-> "logits_labels"]))

CalcLoss(td, hd, items) == CalcLossLoop(td, hd, items, <<>>, <<>>, <<>>)

\* self.multi_train = None: no dataset built yet
NoDatasets == [n \in {} |-> None]

Loaded(mt) == DOMAIN mt # {}

NoStep == [status |-> "idle", loss |-> None, loss_per_task |-> <<>>, trace |-> <<>>]

(***************************************************************************)
(* Values of the variables a specification does not exercise.              *)
(***************************************************************************)
IdleVocab == /\ tokenizer = <<>> /\ weight = <<>> /\ ext = None
IdleLoss == /\ multi_train = NoDatasets /\ train_batch = <<>> /\ step = NoStep
IdleOpt == /\ named_parameters = <<>> /\ optimizer_grouped_parameters = <<>>
IdleTrainer == trainer = <<>>

vocabVars == <<tokenizer, weight, ext>>
lossVars == <<multi_train, train_batch, step>>
optVars == <<named_parameters, optimizer_grouped_parameters>>
moduleVars == <<task_dict, use_ctrl_tokens, heads>>

(***************************************************************************)
(* SpecLoss: setup and training steps of a constructed module.             *)
(***************************************************************************)
InitLoss ==
    /\ task_dict \in LossRegistries
    /\ use_ctrl_tokens \in BOOLEAN
    /\ heads = Heads(task_dict)
    /\ IdleVocab /\ IdleLoss /\ IdleOpt /\ IdleTrainer

\* setup(): self.load_data("train")
Setup ==
    /\ ~Loaded(multi_train)
    /\ multi_train' = LoadData(task_dict, use_ctrl_tokens)
    /\ UNCHANGED <<moduleVars, vocabVars, train_batch, step, optVars, trainer>>

\* training_step(train_batch, batch_idx) on the next batch of the training
\* data: calc_loss, then the loss is logged and returned to the trainer.
TrainingStep ==
    /\ Loaded(multi_train)
    /\ step.status = "idle"
    /\ \E batch \in Batches(task_dict) :
        /\ train_batch' = batch
        /\ step' = CalcLoss(task_dict, heads, batch)
    /\ UNCHANGED <<moduleVars, vocabVars, multi_train, optVars, trainer>>

\* The trainer has consumed the returned loss and asks for the next batch.
\* An exception raised by calc_loss ends the run instead.
StepDone ==
    /\ step.status = "returned"
    /\ train_batch' = <<>>
    /\ step' = NoStep
    /\ UNCHANGED <<moduleVars, vocabVars, multi_train, optVars, trainer>>

NextLoss == Setup \/ TrainingStep \/ StepDone

SpecLoss == InitLoss /\ [][NextLoss]_vars

(***************************************************************************)
(* Reference values for the claims about calc_loss, computed from the      *)
(* batch alone and in no particular task order.                            *)
(***************************************************************************)
Range(f) == { f[i] : i \in DOMAIN f }

RECURSIVE IntSum(_)
IntSum(t) == IF t = <<>> THEN 0 ELSE t[1][1] + IntSum(Tail(t))

IsPerLabel(td, item) == td[item.name].type = "classification" /\ td[item.name].multi_label

\* sum of the per-example losses of one task's item
RECURSIVE RowsTotal(_)
RowsTotal(m) ==
    IF m = <<>> THEN <<0, 1>>
    ELSE RAdd(Rat(IntSum(m[1]), Len(m[1])), RowsTotal(Tail(m)))

ItemTotal(td, item) ==
    IF IsPerLabel(td, item) THEN RowsTotal(item.out) ELSE <<IntSum(item.out), 1>>

ItemMean(td, item) ==
    LET s == ItemTotal(td, item) IN Rat(s[1], s[2] * Len(item.out))

RECURSIVE SetTotal(_, _)
SetTotal(td, its) ==
    IF its = {} THEN <<0, 1>>
    ELSE LET it == CHOOSE x \in its : TRUE
         IN RAdd(ItemTotal(td, it), SetTotal(td, its \ {it}))

RECURSIVE SetCount(_)
SetCount(its) ==
    IF its = {} THEN 0
    ELSE LET it == CHOOSE x \in its : TRUE IN Len(it.out) + SetCount(its \ {it})

\* sum of all per-example losses divided by the total number of examples
MeanOfAllExamples(td, items) ==
    LET s == SetTotal(td, Range(items)) IN Rat(s[1], s[2] * SetCount(Range(items)))

Reorderings(items) ==
    { q \in [1..Len(items) -> Range(items)] : Range(q) = Range(items) }

Returned == step.status = "returned"

StepRan == step.status # "idle"

\* every classification task of the batch owns a head
HeadsOwned ==
    \A i \in 1..Len(train_batch) :
        LET task == task_dict[train_batch[i].name]
        IN task.type = "classification" => task.head

\* C1: for every batch in which each task has its per-example losses (every
\* classification task owns its head), calc_loss returns, the aggregate loss
\* is the sum of all per-example losses of the batch divided by the total
\* number of examples, and calc_loss returns the same aggregate for every
\* iteration order of the batch's tasks.
C1_AggregateIsMeanOfConcatenation ==
    (StepRan /\ HeadsOwned) =>
        /\ Returned
        /\ step.loss = MeanOfAllExamples(task_dict, train_batch)
        /\ \A q \in Reorderings(train_batch) :
                CalcLoss(task_dict, heads, q).loss = step.loss

\* C1 witness: a returned step over two tasks with different numbers of
\* examples whose aggregate differs from the mean of the two per-task means.
C1_Witness ==
    /\ Returned
    /\ Len(train_batch) = 2
    /\ Len(train_batch[1].out) # Len(train_batch[2].out)
    /\ LET m1 == step.loss_per_task[train_batch[1].name]
           m2 == step.loss_per_task[train_batch[2].name]
           mm == RAdd(m1, m2)
       IN step.loss # Rat(mm[1], mm[2] * 2)

\* C2: calc_loss returns a mapping exactly for the batches whose
\* classification tasks own their heads; the keys of the returned mapping are
\* exactly the task names of the batch (no entry for a registered task that
\* is not in the batch), each value is the mean of that task's per-example
\* losses, and the aggregate lies between the least and the greatest
\* per-task value.
C2_PerTaskMapping ==
    /\ StepRan => (Returned <=> HeadsOwned)
    /\ Returned =>
        /\ DOMAIN step.loss_per_task = BatchNames(train_batch)
        /\ \A i \in 1..Len(train_batch) :
                step.loss_per_task[train_batch[i].name] = ItemMean(task_dict, train_batch[i])
        /\ \E lo, hi \in BatchNames(train_batch) :
                /\ \A n \in BatchNames(train_batch) :
                        /\ RLeq(step.loss_per_task[lo], step.loss_per_task[n])
                        /\ RLeq(step.loss_per_task[n], step.loss_per_task[hi])
                /\ RLeq(step.loss_per_task[lo], step.loss)
                /\ RLeq(step.loss, step.loss_per_task[hi])

\* C2 witness: a returned step over a multi-label task and another task whose
\* aggregate is strictly between the two per-task means.
C2_Witness ==
    /\ Returned
    /\ Len(train_batch) = 2
    /\ \E i \in 1..2 : IsPerLabel(task_dict, train_batch[i])
    /\ \E lo, hi \in BatchNames(train_batch) :
        /\ step.loss_per_task[lo] # step.loss
        /\ step.loss_per_task[hi] # step.loss
        /\ RLeq(step.loss_per_task[lo], step.loss)
        /\ RLeq(step.loss, step.loss_per_task[hi])

Visited == { step.trace[i] : i \in 1..Len(step.trace) }

C6_HeadlessStepCompletes ==
    \A i \in 1..Len(train_batch) :
        LET n == train_batch[i].name
        IN (task_dict[n].type = "classification" /\ ~task_dict[n].head) =>
                /\ step.status = "returned"
                /\ n \in DOMAIN step.loss_per_task

\* C10 as claimed: calc_loss pools at position 1 for a task exactly when
\* load_data had that task's control token inserted into its inputs, and at
\* position 0 otherwise.
C10_PoolingMatchesInputs ==
    Returned =>
        \A v \in Visited :
            /\ v.idx \in {0, 1}
            /\ (v.idx = 1) <=> InsertsCtrlToken(multi_train[v.name])

(***************************************************************************)
(* Control-token vocabulary extension (__init__, use_ctrl_tokens branch).  *)
(* A row of the embedding matrix is modelled by one integer.               *)
(***************************************************************************)
\* the vocabulary of the pretrained tokenizer; token id = index - 1
BaseVocab == <<"[PAD]", "[CLS]", "[SEP]", "paper">>

IndexOf(seq, x) == CHOOSE i \in 1..Len(seq) : seq[i] = x

\* self.tokenizer.cls_token_id, as an index into the rows
ClsRow(tok) == IndexOf(tok, "[CLS]")

\* spl_ctrl_tokens = set([t.ctrl_token for t in self.task_dict.values() if t.ctrl_token])
SplCtrlTokens(td) == { td[n].ctrl_token : n \in DOMAIN td } \ {None}

\* list(spl_ctrl_tokens): the set in some order
ListsOf(S) == { l \in [1..Cardinality(S) -> S] : Range(l) = S }

\* tokenizer.add_special_tokens: the tokens not yet in the vocabulary are
\* appended in list order; the number of tokens added is returned
NewTokens(tok, lst) == SelectSeq(lst, LAMBDA t : t \notin Range(tok))

\* fault variant of ShouldResize: the resize and the row initialisation without the guard
ShouldResizeAlways(num_added_toks) == TRUE

\* if num_added_toks:
ShouldResize(num_added_toks) == num_added_toks # 0

\* encoder.resize_token_embeddings(n): the first min(old, n) rows are kept,
\* rows beyond the old size are freshly initialised
ResizeTokenEmbeddings(w, n, fresh) ==
    [i \in 1..n |-> IF i <= Len(w) THEN w[i] ELSE fresh]

\* fault variant of InitNewRows: the slice one row too long
InitNewRowsOneMore(w, num_added_toks, cls) ==
    [i \in 1..Len(w) |-> IF i >= Len(w) - num_added_toks THEN w[cls] ELSE w[i]]

\* weight[-num_added_toks:, :] = weight[cls_token_id, :]
\* (a Python slice: -0 is 0, so [-0:] is every row)
InitNewRows(w, num_added_toks, cls) ==
    LET first == IF num_added_toks = 0 THEN 1
                 ELSE IF num_added_toks >= Len(w) THEN 1
                 ELSE Len(w) - num_added_toks + 1
    IN [i \in 1..Len(w) |-> IF i >= first THEN w[cls] ELSE w[i]]

\* lines 46-56 on tokenizer tok and embedding rows w
ExtendVocabulary(td, use_ctrl, tok, w, lst, fresh) ==
    IF use_ctrl /\ SplCtrlTokens(td) # {}
    THEN LET added == NewTokens(tok, lst)
             tok2 == tok \o added
             num_added_toks == Len(added)
         IN IF ShouldResize(num_added_toks)
            THEN [tokenizer |-> tok2,
                  weight |-> InitNewRows(ResizeTokenEmbeddings(w, Len(tok2), fresh),
                                         num_added_toks, ClsRow(tok2)),
                  num_added |-> num_added_toks, resized |-> TRUE]
            ELSE [tokenizer |-> tok2, weight |-> w,
                  num_added |-> num_added_toks, resized |-> FALSE]
    ELSE [tokenizer |-> tok, weight |-> w, num_added |-> 0, resized |-> FALSE]

\* values a freshly initialised embedding row can take
FreshRows == {-1, -2}

\* change of a row by one optimizer update
Trained(v) == v + 100

NoExt == [runs |-> 0, updates |-> 0, last |-> "load", num_added |-> 0,
          resized |-> FALSE, tok_before |-> <<>>, weight_before |-> <<>>]

(***************************************************************************)
(* SpecVocab: the extension run on a pretrained tokenizer and encoder,     *)
(* training updates of the embedding rows, and the extension run again on  *)
(* the tokenizer and encoder it left.                                      *)
(***************************************************************************)
InitVocab ==
    /\ task_dict \in VocabRegistries
    /\ use_ctrl_tokens \in BOOLEAN
    /\ heads = Heads(task_dict)
    /\ tokenizer = BaseVocab
    /\ \E pad \in 0..MaxPad : weight = [i \in 1..(Len(BaseVocab) + pad) |-> i]
    /\ ext = NoExt
    /\ IdleLoss /\ IdleOpt /\ IdleTrainer

Extend ==
    /\ ext.runs < MaxRuns
    /\ \E lst \in ListsOf(SplCtrlTokens(task_dict)), fresh \in FreshRows :
        LET r == ExtendVocabulary(task_dict, use_ctrl_tokens, tokenizer, weight, lst, fresh)
        IN /\ tokenizer' = r.tokenizer
           /\ weight' = r.weight
           /\ ext' = [runs |-> ext.runs + 1, updates |-> ext.updates, last |-> "extend",
                      num_added |-> r.num_added, resized |-> r.resized,
                      tok_before |-> tokenizer, weight_before |-> weight]
    /\ UNCHANGED <<moduleVars, lossVars, optVars, trainer>>

\* an optimizer update changes an embedding row in place
UpdateRow ==
    /\ ext.runs >= 1
    /\ ext.updates < MaxUpdates
    /\ \E i \in 1..Len(weight) :
        weight' = [weight EXCEPT ![i] = Trained(weight[i])]
    /\ ext' = [ext EXCEPT !.updates = ext.updates + 1, !.last = "update"]
    /\ UNCHANGED <<moduleVars, tokenizer, lossVars, optVars, trainer>>

NextVocab == Extend \/ UpdateRow

SpecVocab == InitVocab /\ [][NextVocab]_vars

JustExtended == ext.last = "extend"

FirstNew == Len(ext.tok_before) + 1

\* C3: a run of the extension on a tokenizer and encoder that an earlier run
\* with the same control tokens extended adds no token, does not resize, and
\* leaves the vocabulary and every embedding row as they were.
C3_ExtensionIdempotent ==
    (JustExtended /\ ext.runs >= 2) =>
        /\ ext.num_added = 0
        /\ ~ext.resized
        /\ tokenizer = ext.tok_before
        /\ weight = ext.weight_before

\* C3 witness: a second run on a vocabulary that the first run extended by
\* two control tokens and whose rows training has changed since.
C3_Witness ==
    /\ JustExtended /\ ext.runs = 2
    /\ Len(tokenizer) = Len(BaseVocab) + 2
    /\ ext.updates >= 1
    /\ \E i \in 1..Len(weight) : weight[i] >= 100

\* C4 as claimed: after an extension that added tokens, the matrix has
\* len(tokenizer) rows, every new token's row equals the [CLS] row as it was
\* before the extension, and every row that existed before is unchanged.
C4_AllOldRowsUnchanged ==
    (JustExtended /\ ext.num_added > 0) =>
        /\ Len(weight) = Len(tokenizer)
        /\ \A i \in FirstNew..Len(tokenizer) :
                weight[i] = ext.weight_before[ClsRow(ext.tok_before)]
        /\ \A i \in 1..Len(ext.weight_before) :
                i <= Len(weight) /\ weight[i] = ext.weight_before[i]

\* C4 amended: after an extension that added n > 0 tokens, the matrix has
\* len(tokenizer) rows, the n rows of the new token ids equal the [CLS] row as
\* it was before the extension, and the row of every token id that existed
\* before the extension is unchanged.
C4_NewRowsAreCls ==
    (JustExtended /\ ext.num_added > 0) =>
        /\ Len(tokenizer) = Len(ext.tok_before) + ext.num_added
        /\ Len(weight) = Len(tokenizer)
        /\ \A i \in FirstNew..Len(tokenizer) :
                weight[i] = ext.weight_before[ClsRow(ext.tok_before)]
        /\ \A i \in 1..Len(ext.tok_before) : weight[i] = ext.weight_before[i]

\* C4 witness: an extension that added two tokens to an encoder whose matrix
\* had more rows than the tokenizer had tokens.
C4_Witness ==
    /\ JustExtended /\ ext.num_added = 2
    /\ Len(ext.weight_before) > Len(ext.tok_before)
    /\ weight[Len(weight)] = ext.weight_before[ClsRow(ext.tok_before)]

(***************************************************************************)
(* configure_optimizers: the two parameter groups.  A parameter name is a  *)
(* sequence of chunks of characters, and `nd in n` is the search for nd as *)
(* a run of consecutive chunks of n.                                       *)
(***************************************************************************)
\* no_decay = ["bias", "LayerNorm.weight"]
no_decay == << <<"bias">>, <<"LayerNorm", ".", "weight">> >>

ParamNames ==
    { <<"encoder", ".", "word_embeddings", ".", "weight">>,
      <<"encoder", ".", "LayerNorm", ".", "weight">>,
      <<"encoder", ".", "LayerNorm", ".", "bias">>,
      <<"encoder", ".", "dense", ".", "weight">>,
      <<"encoder", ".", "dense", ".", "bias">>,
      <<"encoder", ".", "LayerNorm", ".", "dense", ".", "weight">>,
      <<"encoder", ".", "rel_", "bias", "_table">>,
      <<"heads", ".", "task_a", ".", "linear", ".", "weight">>,
      <<"heads", ".", "task_a", ".", "linear", ".", "bias">> }

\* nd in n
Contains(n, nd) ==
    \E i \in 0..(Len(n) - Len(nd)) : SubSeq(n, i + 1, i + Len(nd)) = nd

\* any(nd in n for nd in no_decay)
AnyNoDecay(n) == \E k \in 1..Len(no_decay) : Contains(n, no_decay[k])

\* [p for n, p in self.named_parameters() if not any(nd in n for nd in no_decay)]
DecayParams(np) == SelectSeq(np, LAMBDA n : ~AnyNoDecay(n))

\* fault variant of NoDecayParams: the second group filtered by "bias" alone
NoDecayParamsBiasOnly(np) == SelectSeq(np, LAMBDA n : Contains(n, no_decay[1]))

\* [p for n, p in self.named_parameters() if any(nd in n for nd in no_decay)]
NoDecayParams(np) == SelectSeq(np, LAMBDA n : AnyNoDecay(n))

\* optimizer_grouped_parameters; a parameter is identified by its name
GroupedParameters(np) ==
    << [params |-> DecayParams(np), weight_decay |-> 0],
       [params |-> NoDecayParams(np), weight_decay |-> 0] >>

\* the parameter lists a module can have: distinct names in any order
ParamLists ==
    { l \in UNION { [1..k -> ParamNames] : k \in 1..MaxParams } :
        \A i, j \in 1..Len(l) : i # j => l[i] # l[j] }

(***************************************************************************)
(* SpecOpt: configure_optimizers on a module with any parameter list.      *)
(***************************************************************************)
InitOpt ==
    /\ task_dict \in { td \in VocabRegistries : SplCtrlTokens(td) = {} }
    /\ use_ctrl_tokens = FALSE
    /\ heads = Heads(task_dict)
    /\ named_parameters \in ParamLists
    /\ optimizer_grouped_parameters = <<>>
    /\ IdleVocab /\ IdleLoss /\ IdleTrainer

ConfigureOptimizers ==
    /\ optimizer_grouped_parameters = <<>>
    /\ optimizer_grouped_parameters' = GroupedParameters(named_parameters)
    /\ UNCHANGED <<moduleVars, vocabVars, lossVars, named_parameters, trainer>>

NextOpt == ConfigureOptimizers

SpecOpt == InitOpt /\ [][NextOpt]_vars

Configured == optimizer_grouped_parameters # <<>>

Occurrences(seq, x) == Cardinality({ i \in 1..Len(seq) : seq[i] = x })

\* C7: once the optimizer is configured, every named parameter occurs exactly
\* once in the two groups together, and it is in the second group exactly
\* when its name contains "bias" or "LayerNorm.weight".
C7_GroupsPartitionParameters ==
    Configured =>
        /\ Len(optimizer_grouped_parameters) = 2
        /\ \A i \in 1..Len(named_parameters) :
            LET n == named_parameters[i]
                in1 == Occurrences(optimizer_grouped_parameters[1].params, n)
                in2 == Occurrences(optimizer_grouped_parameters[2].params, n)
            IN /\ in1 + in2 = 1
               /\ (in2 = 1) <=> ( \/ Contains(n, <<"bias">>)
                                  \/ Contains(n, <<"LayerNorm", ".", "weight">>) )
        /\ \A g \in 1..2 :
            Range(optimizer_grouped_parameters[g].params) \subseteq Range(named_parameters)

\* C7 witness: a configured optimizer with a LayerNorm.weight parameter in
\* the second group and a parameter in the first group whose name holds
\* LayerNorm and weight apart from each other.
C7_Witness ==
    /\ Configured
    /\ <<"encoder", ".", "LayerNorm", ".", "weight">>
            \in Range(optimizer_grouped_parameters[2].params)
    /\ <<"encoder", ".", "LayerNorm", ".", "dense", ".", "weight">>
            \in Range(optimizer_grouped_parameters[1].params)

(***************************************************************************)
(* The training run of the driver: pl.Trainer(max_epochs=2,                *)
(* accumulate_grad_batches=4, val_check_interval=1.0, the ModelCheckpoint  *)
(* callback) fitting the module, with the lr scheduler configuration that  *)
(* configure_optimizers returns.                                           *)
(***************************************************************************)
MaxEpochs == 2

AccumulateGradBatches == 4

\* fault variant of SchedulerInterval: the scheduler stepped once per epoch
SchedulerIntervalEpoch == "epoch"

\* "lr_scheduler": {"scheduler": scheduler, "interval": "step", "frequency": 1}
SchedulerInterval == "step"

SchedulerFrequency == 1

\* scheduler.step(): the schedule's current_step advances by one
SchedulerStep(current_step) == current_step + 1

\* the three exports of on_save_checkpoint, in order
Exports == <<"model", "tokenizer", "vocabulary">>

\* on_save_checkpoint, when the exports before number `fails` succeed and
\* export number `fails` raises (fails = 0: none raises).  Nothing catches
\* the exception, so it leaves the hook and reaches the trainer.
OnSaveCheckpoint(artifacts, fails) ==
    LET done == IF fails = 0 THEN Len(Exports) ELSE fails - 1
    IN [artifacts |-> artifacts \cup { Exports[i] : i \in 1..done },
        raised |-> fails # 0]

\* the trainer steps the optimizer on the batch that completes an accumulation
\* window and on the last batch of an epoch
OptimizerStepsNow(batch_idx, n_batches) ==
    \/ batch_idx % AccumulateGradBatches = 0
    \/ batch_idx = n_batches

(***************************************************************************)
(* SpecTrain: trainer.fit(model) over epochs of n_batches batches.         *)
(***************************************************************************)
InitTrain ==
    /\ task_dict \in { td \in VocabRegistries : SplCtrlTokens(td) = {} }
    /\ use_ctrl_tokens = FALSE
    /\ heads = Heads(task_dict)
    /\ \E n \in 1..MaxBatches :
        trainer = [state |-> "train", n_batches |-> n, epoch |-> 0, batch_idx |-> 0,
                   optimizer_steps |-> 0, current_step |-> 0, epoch_end_steps |-> 0,
                   hook |-> "not_run", artifacts |-> {}]
    /\ IdleVocab /\ IdleLoss /\ IdleOpt

\* one training batch: training_step, backward, and at the end of an
\* accumulation window the optimizer update followed by the scheduler step
TrainBatch ==
    /\ trainer.state = "train"
    /\ trainer.batch_idx < trainer.n_batches
    /\ LET b == trainer.batch_idx + 1
           update == OptimizerStepsNow(b, trainer.n_batches)
           steps == IF update THEN trainer.optimizer_steps + 1 ELSE trainer.optimizer_steps
           sched == update /\ SchedulerInterval = "step" /\ steps % SchedulerFrequency = 0
       IN trainer' = [trainer EXCEPT
                        !.batch_idx = b,
                        !.optimizer_steps = steps,
                        !.current_step = IF sched THEN SchedulerStep(@) ELSE @]
    /\ UNCHANGED <<moduleVars, vocabVars, lossVars, optVars>>

\* end of an epoch: schedulers with interval "epoch" step, validation runs
\* (val_check_interval=1.0) and the checkpoint callback is due
EpochEnd ==
    /\ trainer.state = "train"
    /\ trainer.batch_idx = trainer.n_batches
    /\ LET sched == SchedulerInterval = "epoch"
       IN trainer' = [trainer EXCEPT
                        !.state = "checkpoint",
                        !.current_step = IF sched THEN SchedulerStep(@) ELSE @,
                        !.epoch_end_steps = IF sched THEN @ + 1 ELSE @]
    /\ UNCHANGED <<moduleVars, vocabVars, lossVars, optVars>>

\* the checkpoint callback saves and the trainer calls on_save_checkpoint;
\* each export may fail with a disk or export error
SaveCheckpoint ==
    /\ trainer.state = "checkpoint"
    /\ \E fails \in 0..Len(Exports) :
        LET r == OnSaveCheckpoint(trainer.artifacts, fails)
            last == trainer.epoch + 1 = MaxEpochs
        IN trainer' = [trainer EXCEPT
                        !.artifacts = r.artifacts,
                        !.hook = IF r.raised THEN "raised" ELSE "returned",
                        !.state = IF r.raised THEN "aborted"
                                  ELSE IF last THEN "finished" ELSE "train",
                        !.epoch = IF r.raised \/ last THEN @ ELSE @ + 1,
                        !.batch_idx = IF r.raised \/ last THEN @ ELSE 0]
    /\ UNCHANGED <<moduleVars, vocabVars, lossVars, optVars>>

NextTrain == TrainBatch \/ EpochEnd \/ SaveCheckpoint

SpecTrain == InitTrain /\ [][NextTrain]_vars

\* C8 as claimed: when an export of the checkpoint hook has failed, the hook
\* has returned normally and the training loop has not been aborted.
C8_HookFailureDoesNotAbort ==
    trainer.hook = "raised" =>
        /\ trainer.hook = "returned"
        /\ trainer.state # "aborted"

\* C9: the schedule's current_step always equals the number of optimizer
\* updates performed so far, it has never advanced at an epoch boundary, and
\* from one state to the next it advances exactly when an optimizer update
\* is performed, by one, and never decreases.
C9_ScheduleStepsWithOptimizer ==
    /\ [](/\ trainer.current_step = trainer.optimizer_steps
          /\ trainer.epoch_end_steps = 0)
    /\ [][/\ trainer'.current_step >= trainer.current_step
          /\ trainer'.current_step - trainer.current_step
                = trainer'.optimizer_steps - trainer.optimizer_steps
          /\ trainer'.current_step - trainer.current_step \in {0, 1}]_vars

\* C9 witness: in the second epoch of a run with six batches per epoch, the
\* schedule has advanced at the end of an accumulation window of four batches,
\* at the end of the first epoch after two more batches, and again in the
\* second epoch.
C9_Witness ==
    /\ trainer.n_batches = 6
    /\ trainer.epoch = 1
    /\ trainer.batch_idx = 5
    /\ trainer.optimizer_steps = 3
    /\ trainer.current_step = 3

====
